---- MODULE Spec2Model ----
(***************************************************************************)
(* Casemellow RAG chatbot backend: the ingestion pipeline                  *)
(* (embed_products.py, embed_faqs.py), the embedding wrapper               *)
(* (utils/embedding_utils.py) and the /query handler (main.py).            *)
(*                                                                         *)
(* Python strings are sequences of one-character strings.  A JSON / Python *)
(* value is a record [t, v]: t is its type tag, v its payload.             *)
(***************************************************************************)
EXTENDS Integers, Sequences, FiniteSets, TLC

\* ------------------------------------------------------------ bounds

\* Longest dataset file (number of records) the ingestion model reads.
MaxRecords == 2

\* Longest text handed directly to get_embedding / the loop body.
MaxTextLen == 3

\* Largest number of records behind a collection the /query model serves.
MaxStored == 11

\* ------------------------------------------------------------ values

Str(s) == [t |-> "str", v |-> s]

Num(n) == [t |-> "num", v |-> n]

Null == [t |-> "null", v |-> <<>>]

List(s) == [t |-> "list", v |-> s]

Dict(f) == [t |-> "dict", v |-> f]

\* The outcome "an exception was raised" of an operation.
Raise == [t |-> "raise", v |-> <<>>]

\* An embedding vector.
Vec(x) == [t |-> "vec", v |-> x]

Whitespace == {" ", "\n", "\t"}

\* ------------------------------------------------------------ literals

LitProductName ==
    <<"P", "r", "o", "d", "u", "c", "t", " ", "N", "a", "m", "e", ":", " ">>

LitBrand ==
    <<"\n", " ", " ", " ", " ", " ", " ", " ", " ", "B", "r", "a", "n", "d",
      ":", " ">>

LitModel ==
    <<"\n", " ", " ", " ", " ", " ", " ", " ", " ", "M", "o", "d", "e", "l",
      ":", " ">>

LitType ==
    <<"\n", " ", " ", " ", " ", " ", " ", " ", " ", "T", "y", "p", "e", ":",
      " ">>

LitDescription ==
    <<"\n", " ", " ", " ", " ", " ", " ", " ", " ", "D", "e", "s", "c", "r",
      "i", "p", "t", "i", "o", "n", ":", " ">>

LitPrice ==
    <<"\n", " ", " ", " ", " ", " ", " ", " ", " ", "P", "r", "i", "c", "e",
      ":", " ">>

LitCategory ==
    <<"\n", " ", " ", " ", " ", " ", " ", " ", " ", "C", "a", "t", "e", "g",
      "o", "r", "y", ":", " ">>

LitQ ==
    <<"Q", ":", " ">>

LitA ==
    <<"\n", "A", ":", " ">>

LitNone ==
    <<"N", "o", "n", "e">>

LitCommaSpace ==
    <<",", " ">>

LitProductId ==
    <<"p", "r", "o", "d", "u", "c", "t", "_">>

LitFaqId ==
    <<"f", "a", "q", "_">>

LitUnknown ==
    <<"U", "n", "k", "n", "o", "w", "n">>

LitNoAiService ==
    <<"I", "'", "m", " ", "h", "a", "v", "i", "n", "g", " ", "t", "r", "o",
      "u", "b", "l", "e", " ", "c", "o", "n", "n", "e", "c", "t", "i", "n",
      "g", " ", "t", "o", " ", "t", "h", "e", " ", "A", "I", " ", "s", "e",
      "r", "v", "i", "c", "e", ".", " ", "P", "l", "e", "a", "s", "e", " ",
      "t", "r", "y", " ", "a", "g", "a", "i", "n", " ", "l", "a", "t", "e",
      "r", ".">>

LitFoundPre ==
    <<"I", " ", "f", "o", "u", "n", "d", " ">>

LitFoundPost ==
    <<" ", "p", "r", "o", "d", "u", "c", "t", "(", "s", ")", " ", "t", "h",
      "a", "t", " ", "m", "a", "t", "c", "h", " ", "y", "o", "u", "r", " ",
      "q", "u", "e", "r", "y", ".", " ", "C", "h", "e", "c", "k", " ", "t",
      "h", "e", "m", " ", "o", "u", "t", " ", "b", "e", "l", "o", "w", "!">>

LitFoundInfo ==
    <<"I", " ", "f", "o", "u", "n", "d", " ", "s", "o", "m", "e", " ", "h",
      "e", "l", "p", "f", "u", "l", " ", "i", "n", "f", "o", "r", "m", "a",
      "t", "i", "o", "n", " ", "t", "h", "a", "t", " ", "m", "i", "g", "h",
      "t", " ", "a", "n", "s", "w", "e", "r", " ", "y", "o", "u", "r", " ",
      "q", "u", "e", "s", "t", "i", "o", "n", ".">>

LitNotFound ==
    <<"I", " ", "c", "o", "u", "l", "d", "n", "'", "t", " ", "f", "i", "n",
      "d", " ", "e", "x", "a", "c", "t", "l", "y", " ", "w", "h", "a", "t",
      " ", "y", "o", "u", "'", "r", "e", " ", "l", "o", "o", "k", "i", "n",
      "g", " ", "f", "o", "r", ".", " ", "T", "r", "y", " ", "r", "e", "p",
      "h", "r", "a", "s", "i", "n", "g", " ", "y", "o", "u", "r", " ", "q",
      "u", "e", "s", "t", "i", "o", "n", " ", "o", "r", " ", "b", "r", "o",
      "w", "s", "e", " ", "o", "u", "r", " ", "c", "a", "t", "e", "g", "o",
      "r", "i", "e", "s", "!">>

LitCtxFound ==
    <<"F", "o", "u", "n", "d", " ">>

LitCtxProducts ==
    <<" ", "p", "r", "o", "d", "u", "c", "t", "s", " ", "a", "n", "d", " ">>

LitCtxFaqs ==
    <<" ", "F", "A", "Q", "s">>

\* ------------------------------------------------------------ str methods

Min(a, b) == IF a < b THEN a ELSE b

\* s[:n]
Prefix(s, n) == SubSeq(s, 1, Min(n, Len(s)))

\* str.strip(): drop leading and trailing whitespace.
Strip(s) ==
    IF \A i \in 1..Len(s) : s[i] \in Whitespace THEN <<>>
    ELSE LET lead  == CHOOSE k \in 0..(Len(s) - 1) :
                          /\ s[k + 1] \notin Whitespace
                          /\ \A j \in 1..k : s[j] \in Whitespace
             trail == CHOOSE k \in 0..(Len(s) - 1) :
                          /\ s[Len(s) - k] \notin Whitespace
                          /\ \A j \in 0..(k - 1) : s[Len(s) - j] \in Whitespace
         IN  SubSeq(s, lead + 1, Len(s) - trail)

DigitChars == <<"0", "1", "2", "3", "4", "5", "6", "7", "8", "9">>

RECURSIVE Digits(_)
\* str(n) of a non-negative int.
Digits(n) ==
    IF n < 10 THEN <<DigitChars[n + 1]>>
    ELSE Digits(n \div 10) \o <<DigitChars[(n % 10) + 1]>>

\* str(v), which is also how an f-string formats v.
PyStr(val) ==
    CASE val.t = "str"  -> val.v
      [] val.t = "num"  -> Digits(val.v)
      [] val.t = "null" -> LitNone

\* dict.get(key, default); a value that is no dict has no .get
\* (AttributeError).
Get(d, key, default) ==
    IF d.t # "dict" THEN Raise
    ELSE IF key \in DOMAIN d.v THEN d.v[key] ELSE default

RECURSIVE JoinStrs(_, _)
JoinStrs(sep, items) ==
    IF items = <<>> THEN <<>>
    ELSE IF Len(items) = 1 THEN items[1].v
    ELSE items[1].v \o sep \o JoinStrs(sep, Tail(items))

\* sep.join(items): TypeError unless every item is a str.
Join(sep, items) ==
    IF \E i \in 1..Len(items) : items[i].t # "str" THEN Raise
    ELSE Str(JoinStrs(sep, items))

\* val[:n]: a str is sliced, an int or None is not subscriptable (TypeError).
Slice(val, n) ==
    IF val.t = "str" THEN Str(Prefix(val.v, n)) ELSE Raise

\* ------------------------------------------------------------ normalizers

\* embed_products.create_product_text
create_product_text(product) ==
    IF product.t # "dict" THEN Raise
    ELSE
    LET cover_types == Get(product, "coverType", List(<<>>))
        cover_type_str ==
            IF cover_types.t = "list" THEN Join(LitCommaSpace, cover_types.v)
            ELSE Str(PyStr(cover_types))
        F(key) == PyStr(Get(product, key, Str(<<>>)))
    IN  IF cover_type_str = Raise THEN Raise
        ELSE Str(LitProductName \o F("productName")
                 \o LitBrand \o F("brandName")
                 \o LitModel \o F("phoneModel")
                 \o LitType \o cover_type_str.v
                 \o LitDescription \o F("productDescription")
                 \o LitPrice \o F("productPrice")
                 \o LitCategory \o F("productCategory"))

\* embed_faqs.create_faq_text
create_faq_text(faq) ==
    IF faq.t # "dict" THEN Raise
    ELSE LET question == Get(faq, "question", Str(<<>>))
             answer   == Get(faq, "answer", Str(<<>>))
         IN  Str(LitQ \o PyStr(question) \o LitA \o PyStr(answer))

create_text(kind, record) ==
    IF kind = "product" THEN create_product_text(record)
    ELSE create_faq_text(record)

\* ------------------------------------------------------------ embedding

\* The provider's embed_content: a fixed-length numeric vector that is a
\* function of the text alone.
embed_content(text) ==
    Vec(<<Len(text) % 7, Len(SelectSeq(text, LAMBDA c : c \notin Whitespace)) % 5>>)

\* A get_embedding that sends every text to the provider.
get_embedding_unchecked(text, provider) ==
    IF provider = "raise" THEN [ret |-> Raise, calls |-> 1]
    ELSE [ret |-> embed_content(text), calls |-> 1]

\* utils.embedding_utils.get_embedding.  provider is what the external
\* embed_content call does if it is made: "ok" or "raise".  ret is the
\* returned value (Null is Python's None) or Raise; calls is the number of
\* requests sent to the provider.
get_embedding(text, provider) ==
    IF text = <<>> \/ Strip(text) = <<>> THEN [ret |-> Null, calls |-> 0]
    ELSE IF provider = "raise" THEN [ret |-> Raise, calls |-> 1]
    ELSE [ret |-> embed_content(text), calls |-> 1]

\* ------------------------------------------------------------ vector store

\* A collection is the sequence of its entries, in insertion order.
HasId(coll, id) == \E i \in 1..Len(coll) : coll[i].id = id

EntryOf(coll, id) == coll[CHOOSE i \in 1..Len(coll) : coll[i].id = id]

\* chromadb Collection.add as the ingestion loops call it, one entry per
\* call.  store = "raise": the store fails.  An id already present is never
\* overwritten by add: depending on the library version the call is ignored
\* or raises a duplicate-id error (dupRaises).
collection_add(coll, entry, store, dupRaises) ==
    IF store = "raise" THEN [coll |-> coll, raised |-> TRUE]
    ELSE IF HasId(coll, entry.id)
         THEN [coll |-> coll, raised |-> dupRaises]
         ELSE [coll |-> Append(coll, entry), raised |-> FALSE]

\* ------------------------------------------------------------ ingestion

\* ids=[f"product_{idx}"] / ids=[f"faq_{idx}"]
entry_id(kind, idx) ==
    (IF kind = "product" THEN LitProductId ELSE LitFaqId) \o Digits(idx)

\* The metadata dict the loop builds: every field is str(record.get(k, "")).
build_metadata(kind, record) ==
    LET M(key) == PyStr(Get(record, key, Str(<<>>)))
    IN  IF kind = "product"
        THEN [productName     |-> M("productName"),
              productUrl      |-> M("productUrl"),
              productImage    |-> M("productImage"),
              productPrice    |-> M("productPrice"),
              brandName       |-> M("brandName"),
              phoneModel      |-> M("phoneModel"),
              productCategory |-> M("productCategory")]
        ELSE [question |-> M("question"),
              answer   |-> M("answer")]

\* The name printed after a successful insert:
\*   product.get('productName', 'Unknown')[:50] / faq.get('question', '')[:50]
logged_name(kind, record) ==
    IF kind = "product"
    THEN Slice(Get(record, "productName", Str(LitUnknown)), 50)
    ELSE Slice(Get(record, "question", Str(<<>>)), 50)

\* The entry one collection.add call of the loop stores.
make_entry(kind, record, idx, text, embedding) ==
    [id        |-> entry_id(kind, idx),
     embedding |-> embedding,
     metadata  |-> build_metadata(kind, record),
     document  |-> text]

\* A handler that continues without counting the failure.
count_error_dropped(st) == st

\* `except Exception: error_count += 1; continue` of the per-record try
\* block (and the `error_count += 1; continue` of the skip branch).
count_error(st) == [st EXCEPT !.error_count = @ + 1]

\* `success_count += 1` after the insert returned.
count_success(st) == [st EXCEPT !.success_count = @ + 1]

\* `if (idx + 1) % batch_size == 0: time.sleep(1)`; pauses lists the idx
\* after which the loop slept.
rate_limit(st, idx, batch_size) ==
    IF (idx + 1) % batch_size = 0
    THEN [st EXCEPT !.pauses = Append(@, idx)]
    ELSE st

\* The body of the per-record try block from the embedding call on, for the
\* given normalized text.  st = [collection, success_count, error_count,
\* embed_calls, pauses]; the result adds the record's outcome:
\*   "skipped"        get_embedding returned None
\*   "raised"         an exception before the insert completed
\*   "stored"         the insert completed and the success was counted
\*   "stored_raised"  the insert completed and the success was counted,
\*                    then a statement after it raised
embed_and_insert(kind, record, idx, text, st, provider, store, dupRaises, batch_size) ==
    LET e  == get_embedding(text, provider)
        s1 == [st EXCEPT !.embed_calls = @ + e.calls]
    IN  IF e.ret.t = "null"
        THEN count_error(s1) @@ [outcome |-> "skipped"]
        ELSE IF e.ret.t = "raise"
        THEN count_error(s1) @@ [outcome |-> "raised"]
        ELSE
        LET entry == make_entry(kind, record, idx, text, e.ret)
            a  == collection_add(s1.collection, entry, store, dupRaises)
            s2 == count_success([s1 EXCEPT !.collection = a.coll])
        IN  IF a.raised
            THEN count_error(s1) @@ [outcome |-> "raised"]
            ELSE IF logged_name(kind, record).t = "raise"
            THEN count_error(s2) @@ [outcome |-> "stored_raised"]
            ELSE rate_limit(s2, idx, batch_size) @@ [outcome |-> "stored"]

\* One iteration of `for idx, record in enumerate(records)`.
process_record(kind, record, idx, st, provider, store, dupRaises, batch_size) ==
    LET text == create_text(kind, record)
    IN  IF text.t = "raise"
        THEN count_error(st) @@ [outcome |-> "raised"]
        ELSE embed_and_insert(kind, record, idx, text.v, st, provider, store,
                              dupRaises, batch_size)

\* A top-level handler that reports the counters reached so far.
fatal_return_counters(success, errors) == <<success, errors>>

\* What the two top-level except clauses return.
fatal_return(success, errors) == <<0, 0>>

\* ------------------------------------------------------------ datasets

\* Records of a FAQ dataset file.  F1 is complete; F2 is F1 with a null
\* question; F3 is no object at all; F4 has no question; F5 has an empty
\* answer.
F1 == Dict([question |-> Str(<<"q">>), answer |-> Str(<<"a">>)])

F2 == Dict([question |-> Null, answer |-> Str(<<"a">>)])

F3 == Str(<<"x">>)

F4 == Dict([answer |-> Str(<<"a">>)])

F5 == Dict([question |-> Str(<<"q">>), answer |-> Str(<<>>)])

\* Records of a product dataset file.  P1 is complete; P2 is P1 with a
\* numeric name; P3 is no object at all; P4 has an empty name; P5 has no
\* price.
P1 == Dict([productName |-> Str(<<"n">>), brandName |-> Str(<<"b">>),
            phoneModel |-> Str(<<"m">>),
            coverType |-> List(<<Str(<<"x">>), Str(<<"y">>)>>),
            productDescription |-> Str(<<"d">>), productPrice |-> Num(12),
            productCategory |-> Str(<<"c">>), productImage |-> Str(<<"i">>),
            productUrl |-> Str(<<"u">>)])

P2 == Dict([productName |-> Num(7), brandName |-> Str(<<"b">>),
            phoneModel |-> Str(<<"m">>),
            coverType |-> List(<<Str(<<"x">>), Str(<<"y">>)>>),
            productDescription |-> Str(<<"d">>), productPrice |-> Num(12),
            productCategory |-> Str(<<"c">>), productImage |-> Str(<<"i">>),
            productUrl |-> Str(<<"u">>)])

P3 == Null

P4 == Dict([productName |-> Str(<<>>), coverType |-> Str(<<"x">>),
            productPrice |-> Num(5)])

P5 == Dict([productName |-> Str(<<"n">>), brandName |-> Null])

\* The records the ingestion runs draw their dataset files from.
Samples(kind) == IF kind = "product" THEN {P1, P2, P3} ELSE {F1, F2, F3}

SeqsUpTo(S, n) == UNION {[1..k -> S] : k \in 0..n}

FileMissing == [t |-> "missing", v |-> <<>>]

FileInvalid == [t |-> "invalid", v |-> <<>>]

\* What the dataset file of a kind may hold when a run starts.
DataFiles(kind) ==
    {FileMissing, FileInvalid}
        \cup {List(s) : s \in SeqsUpTo(Samples(kind), MaxRecords)}

\* ------------------------------------------------------------ retrieval

\* main.py CONFIG and QueryRequest defaults.
TOP_K_PRODUCTS == 3

TOP_K_FAQS == 2

\* The caps written into retrieve_products, retrieve_faqs and query_chatbot.
MaxProducts == 10

MaxFaqs == 5

\* The longest accepted query_text.
MaxQueryLen == 500

\* How many products and FAQs generate_response_with_gemini lists in the
\* prompt.
ContextProducts == 5

ContextFaqs == 3

Absent == [t |-> "absent", v |-> <<>>]

\* QueryRequest(**body): an absent top_k field takes its default.
QueryRequest(body) ==
    [query          |-> body.query,
     top_k_products |-> IF body.top_k_products.t = "absent"
                        THEN Num(TOP_K_PRODUCTS) ELSE body.top_k_products,
     top_k_faqs     |-> IF body.top_k_faqs.t = "absent"
                        THEN Num(TOP_K_FAQS) ELSE body.top_k_faqs]

\* A cap that lets any requested value through.
py_min_unclamped(top_k, cap) == IF top_k.t # "num" THEN Raise ELSE top_k

\* min(top_k, cap): comparing None with an int is a TypeError.
py_min(top_k, cap) ==
    IF top_k.t # "num" THEN Raise ELSE Num(Min(top_k.v, cap))

Abs(x) == IF x < 0 THEN 0 - x ELSE x

Dist(u, w) == Abs(u.v[1] - w.v[1]) + Abs(u.v[2] - w.v[2])

RECURSIVE Nearest(_, _, _, _)
\* The n entries of coll nearest to vec among those at the positions left,
\* closest first, ties in insertion order.
Nearest(coll, vec, left, n) ==
    IF n = 0 \/ left = {} THEN <<>>
    ELSE LET best == CHOOSE i \in left : \A j \in left :
                         \/ Dist(coll[i].embedding, vec) < Dist(coll[j].embedding, vec)
                         \/ /\ Dist(coll[i].embedding, vec) = Dist(coll[j].embedding, vec)
                            /\ i <= j
         IN  <<coll[best].metadata>> \o Nearest(coll, vec, left \ {best}, n - 1)

\* chromadb Collection.query(query_embeddings=[vec], n_results=n): the
\* metadatas of at most n nearest entries; the store may fail, and rejects
\* an n_results that is not positive.
collection_query(coll, vec, n, store) ==
    IF store = "raise" \/ n <= 0 THEN Raise
    ELSE List(Nearest(coll, vec, 1..Len(coll), n))

\* A trace entry for one outbound call: op is the call, arg its size
\* argument (n_results, or the text length), got the number of results,
\* raised whether the call ended in an exception.
Call(op, arg, got) == [op |-> op, arg |-> arg, got |-> got, raised |-> FALSE]

\* The trace entry of a call that raised.
Raised(call) == [call EXCEPT !.raised = TRUE]

\* Python truthiness of metadata.get(key).
Truthy(metadata, key) == key \in DOMAIN metadata /\ metadata[key] # <<>>

ProductResult(metadata) ==
    [productName  |-> metadata.productName,
     productUrl   |-> metadata.productUrl,
     productImage |-> metadata.productImage,
     productPrice |-> metadata.productPrice,
     brandName    |-> metadata.brandName,
     phoneModel   |-> metadata.phoneModel]

FAQResult(metadata) ==
    [question |-> metadata.question, answer |-> metadata.answer]

\* A products filter that keeps every entry.
keep_product_any(metadata) == TRUE

\* if metadata.get("productName") and metadata.get("productPrice")
keep_product(metadata) ==
    Truthy(metadata, "productName") /\ Truthy(metadata, "productPrice")

\* if metadata.get("question") and metadata.get("answer")
keep_faq(metadata) ==
    Truthy(metadata, "question") /\ Truthy(metadata, "answer")

RECURSIVE FilterMap(_, _)
\* The result objects of the metadatas that pass the filter, in order.
FilterMap(kind, metadatas) ==
    IF metadatas = <<>> THEN <<>>
    ELSE LET m == Head(metadatas)
             rest == FilterMap(kind, Tail(metadatas))
         IN  IF kind = "product"
             THEN (IF keep_product(m) THEN <<ProductResult(m)>> ELSE <<>>) \o rest
             ELSE (IF keep_faq(m) THEN <<FAQResult(m)>> ELSE <<>>) \o rest

\* retrieve_products / retrieve_faqs (kind tells which).  coll is the
\* module-level collection (Null when not loaded), top_k a Num.  Returns the
\* list of results and the outbound calls made; the function never raises.
retrieve(kind, coll, query_text, top_k, provider, store) ==
    IF coll.t = "null" THEN [list |-> <<>>, calls |-> <<>>]
    ELSE
    LET e == get_embedding(query_text, provider)
        embed_call == IF e.calls = 0 THEN <<>>
                      ELSE IF e.ret.t = "raise"
                      THEN <<Raised(Call("embed", Len(query_text), 0))>>
                      ELSE <<Call("embed", Len(query_text), 0)>>
        cap == IF kind = "product" THEN MaxProducts ELSE MaxFaqs
        op == IF kind = "product" THEN "query_products" ELSE "query_faqs"
        n == py_min(top_k, cap)
    IN  IF e.ret.t = "raise" \/ e.ret.t = "null"
        THEN [list |-> <<>>, calls |-> embed_call]
        ELSE IF n.t = "raise"
        THEN [list |-> <<>>, calls |-> embed_call]
        ELSE LET res == collection_query(coll.v, e.ret, n.v, store)
             IN  IF res.t = "raise"
                 THEN [list  |-> <<>>,
                       calls |-> embed_call \o <<Raised(Call(op, n.v, 0))>>]
                 ELSE [list  |-> FilterMap(kind, res.v),
                       calls |-> embed_call \o <<Call(op, n.v, Len(res.v))>>]

\* The fallback sentence of generate_response_with_gemini's except clause.
fallback_text(products, faqs) ==
    IF products # <<>>
    THEN LitFoundPre \o Digits(Len(products)) \o LitFoundPost
    ELSE IF faqs # <<>> THEN LitFoundInfo
    ELSE LitNotFound

\* A generation step that lets the model's failure escape.
generate_response_propagating(client, query, products, faqs, model) ==
    IF model.t = "text" THEN [text |-> Str(Strip(model.v)), calls |-> <<>>]
    ELSE [text |-> Raise, calls |-> <<>>]

\* generate_response_with_gemini.  model is what generate_content does:
\* [t |-> "text", v |-> the returned text], "no_text" (response.text is
\* None, so .strip() raises) or "raise".  Returns the answer text and the
\* call made, whose arg is the number of products and got the number of
\* FAQs listed in the prompt.
generate_response_with_gemini(client, query, products, faqs, model) ==
    IF client = "None" THEN [text |-> Str(LitNoAiService), calls |-> <<>>]
    ELSE
    LET call == Call("generate", Min(Len(products), ContextProducts),
                     Min(Len(faqs), ContextFaqs))
    IN  IF model.t = "text"
        THEN [text |-> Str(Strip(model.v)), calls |-> <<call>>]
        ELSE [text  |-> Str(fallback_text(products, faqs)),
              calls |-> <<Raised(call)>>]

\* f"Found {len(products)} products and {len(faqs)} FAQs"
conversation_context(products, faqs) ==
    LitCtxFound \o Digits(Len(products)) \o LitCtxProducts
        \o Digits(Len(faqs)) \o LitCtxFaqs

HttpError(status, detail) == [status |-> status, body |-> [detail |-> detail]]

\* A validation that has no length limit.
validate_query_no_limit(query_text) ==
    IF query_text = <<>> THEN "Query cannot be empty." ELSE "ok"

\* The two checks of query_text = request.query.strip().
validate_query(query_text) ==
    IF query_text = <<>> THEN "Query cannot be empty."
    ELSE IF Len(query_text) > MaxQueryLen
    THEN "Query is too long. Max 500 characters."
    ELSE "ok"

\* An availability check that lets every request through.
check_available_skipped(products_coll, faqs_coll, client) == "ok"

\* The two 503 checks of query_chatbot.
check_available(products_coll, faqs_coll, client) ==
    IF products_coll.t = "null" \/ faqs_coll.t = "null"
    THEN "Database not available. Please contact support."
    ELSE IF client = "None"
    THEN "AI service temporarily unavailable. Please try again."
    ELSE "ok"

\* QueryResponse(...) as query_chatbot builds it.
QueryResponse(query_text, response_text, products, faqs) ==
    [status |-> 200,
     body   |-> [query               |-> query_text,
                 responseText        |-> response_text,
                 products            |-> products,
                 faqs                |-> faqs,
                 hasResults          |-> (Len(products) > 0 \/ Len(faqs) > 0),
                 conversationContext |-> conversation_context(products, faqs)]]

\* ------------------------------------------------------------ state

VARIABLES
    \* --- embed_and_store_products / embed_and_store_faqs
    kind,           \* "product" or "faq": which of the two pipelines this is
    dup_raises,     \* whether the installed store's add raises on a known id
    collection,     \* the persistent collection of that kind
    data_file,      \* the dataset file read by the current run
    batch_size,     \* the run's batch_size argument
    pc,             \* "idle", "loop" (inside the for loop) or "returned"
    idx,            \* index of the next record of the loop
    success_count,
    error_count,
    embed_calls,    \* requests sent to the embedding provider by this run
    pauses,         \* the idx values after which this run slept
    outcomes,       \* per record of this run, what its iteration did
    fatal,          \* "none", "file_not_found" or "exception"
    result,         \* the returned (success_count, error_count)
    \* --- main.py: module state and one /query request
    gemini_client,        \* "client", or "None" when its setup failed
    products_collection,  \* List of entries, or Null when CHROMA SETUP failed
    faqs_collection,
    request,        \* the QueryRequest being handled
    qpc,            \* "idle", "retrieve_products", "retrieve_faqs",
                    \* "generate" or "done"
    query_text,
    products,       \* what retrieve_products returned
    faqs,           \* what retrieve_faqs returned
    gen_failed,     \* whether the generate_content call failed
    calls,          \* the outbound calls of this request, in order
    response,       \* the HTTP response: [status, body]
    \* --- a call of get_embedding, or of the loop body, on a given text
    probe           \* [text, op, ret, calls]

ingestVars == <<kind, dup_raises, collection, data_file, batch_size, pc, idx,
                success_count, error_count, embed_calls, pauses, outcomes,
                fatal, result>>

queryVars == <<gemini_client, products_collection, faqs_collection, request,
               qpc, query_text, products, faqs, gen_failed, calls, response>>

vars == <<ingestVars, queryVars, probe>>

NoRequest == [query |-> <<>>, top_k_products |-> Absent, top_k_faqs |-> Absent]

NoResponse == [status |-> 0, body |-> <<>>]

\* The request state between two requests.
QueryIdle ==
    /\ request = NoRequest
    /\ qpc = "idle"
    /\ query_text = <<>>
    /\ products = <<>>
    /\ faqs = <<>>
    /\ gen_failed = FALSE
    /\ calls = <<>>
    /\ response = NoResponse

NoProbe == [text |-> <<>>, op |-> "none", ret |-> Null, calls |-> 0]

\* The module state when no server is running.
ServerDown ==
    /\ gemini_client = "None"
    /\ products_collection = Null
    /\ faqs_collection = Null
    /\ QueryIdle

\* ------------------------------------------------------------ ingestion run

\* The default of the batch_size parameter, which every caller in the
\* repository uses.
DefaultBatchSize == 10

BatchSizes == {2, DefaultBatchSize}

NoResult == <<>>

records == data_file.v

InitIngest ==
    /\ kind \in {"product", "faq"}
    /\ dup_raises \in BOOLEAN
    /\ collection = <<>>
    /\ data_file = FileMissing
    /\ batch_size = DefaultBatchSize
    /\ pc = "idle"
    /\ idx = 0
    /\ success_count = 0
    /\ error_count = 0
    /\ embed_calls = 0
    /\ pauses = <<>>
    /\ outcomes = <<>>
    /\ fatal = "none"
    /\ result = NoResult
    /\ ServerDown
    /\ probe = NoProbe

\* A call of embed_and_store_*(batch_size) up to the for loop: load_json,
\* initialize_chroma_client, get_or_create_collection, the counters.
\* file is what the dataset file holds now, store_up whether opening the
\* store and the collection succeeds.
BeginRun ==
    /\ pc = "idle"
    /\ \E file \in DataFiles(kind), size \in BatchSizes, store_up \in BOOLEAN :
        /\ data_file' = file
        /\ batch_size' = size
        /\ IF file.t = "missing"
           THEN /\ pc' = "returned"
                /\ fatal' = "file_not_found"
                /\ result' = fatal_return(0, 0)
           ELSE IF file.t = "invalid" \/ ~store_up
           THEN /\ pc' = "returned"
                /\ fatal' = "exception"
                /\ result' = fatal_return(0, 0)
           ELSE /\ pc' = "loop"
                /\ fatal' = "none"
                /\ result' = NoResult
    /\ idx' = 0
    /\ success_count' = 0
    /\ error_count' = 0
    /\ embed_calls' = 0
    /\ pauses' = <<>>
    /\ outcomes' = <<>>
    /\ UNCHANGED <<kind, dup_raises, collection, queryVars, probe>>

\* One iteration of the for loop.  provider and store are what the
\* embedding provider and the vector store do if they are called.
LoopStep ==
    /\ pc = "loop"
    /\ idx < Len(records)
    /\ \E provider \in {"ok", "raise"}, store \in {"ok", "raise"} :
        LET st == [collection    |-> collection,
                   success_count |-> success_count,
                   error_count   |-> error_count,
                   embed_calls   |-> embed_calls,
                   pauses        |-> pauses]
        IN  \E r \in {process_record(kind, records[idx + 1], idx, st, provider,
                                     store, dup_raises, batch_size)} :
            /\ collection' = r.collection
            /\ success_count' = r.success_count
            /\ error_count' = r.error_count
            /\ embed_calls' = r.embed_calls
            /\ pauses' = r.pauses
            /\ outcomes' = Append(outcomes, r.outcome)
    /\ idx' = idx + 1
    /\ UNCHANGED <<kind, dup_raises, data_file, batch_size, pc, fatal, result,
                   queryVars, probe>>

\* After the loop: the summary, collection.count() and the return.
FinishRun ==
    /\ pc = "loop"
    /\ idx = Len(records)
    /\ pc' = "returned"
    /\ \E count_ok \in BOOLEAN :
        IF count_ok
        THEN /\ fatal' = "none"
             /\ result' = <<success_count, error_count>>
        ELSE /\ fatal' = "exception"
             /\ result' = fatal_return(success_count, error_count)
    /\ UNCHANGED <<kind, dup_raises, collection, data_file, batch_size, idx,
                   success_count, error_count, embed_calls, pauses, outcomes,
                   queryVars, probe>>

\* The call is over: its locals are gone, the collection stays on disk.
EndRun ==
    /\ pc = "returned"
    /\ pc' = "idle"
    /\ data_file' = FileMissing
    /\ batch_size' = DefaultBatchSize
    /\ idx' = 0
    /\ success_count' = 0
    /\ error_count' = 0
    /\ embed_calls' = 0
    /\ pauses' = <<>>
    /\ outcomes' = <<>>
    /\ fatal' = "none"
    /\ result' = NoResult
    /\ UNCHANGED <<kind, dup_raises, collection, queryVars, probe>>

NextIngest ==
    \/ BeginRun
    \/ LoopStep
    \/ FinishRun
    \/ EndRun

SpecIngest == InitIngest /\ [][NextIngest]_vars

\* ------------------------------------------------------------ /query

\* The ingestion state while no ingestion call is running.
IngestIdle ==
    /\ kind = "product"
    /\ dup_raises = FALSE
    /\ collection = <<>>
    /\ data_file = FileMissing
    /\ batch_size = DefaultBatchSize
    /\ pc = "idle"
    /\ idx = 0
    /\ success_count = 0
    /\ error_count = 0
    /\ embed_calls = 0
    /\ pauses = <<>>
    /\ outcomes = <<>>
    /\ fatal = "none"
    /\ result = NoResult

RECURSIVE IngestFrom(_, _, _, _)
IngestFrom(k, dataset, i, st) ==
    IF i = Len(dataset) THEN st.collection
    ELSE LET r == process_record(k, dataset[i + 1], i, st, "ok", "ok", FALSE,
                                 DefaultBatchSize)
         IN  IngestFrom(k, dataset, i + 1,
                        [collection    |-> r.collection,
                         success_count |-> r.success_count,
                         error_count   |-> r.error_count,
                         embed_calls   |-> r.embed_calls,
                         pauses        |-> r.pauses])

\* The collection embed_and_store_* leaves for a dataset, starting from an
\* empty store with the provider and the store up.
IngestedCollection(k, dataset) ==
    IngestFrom(k, dataset, 0,
               [collection |-> <<>>, success_count |-> 0, error_count |-> 0,
                embed_calls |-> 0, pauses |-> <<>>])

Cycle(pattern, n) == [i \in 1..n |-> pattern[((i - 1) % Len(pattern)) + 1]]

\* The datasets behind the collections the server is started on: none, a
\* few records that all lack a display field, a mix of complete and
\* incomplete records, and MaxStored complete records.
ServedDatasets(k) ==
    IF k = "product"
    THEN {<<>>, <<P4, P5>>, <<P1, P4, P2, P5>>, Cycle(<<P1, P2>>, MaxStored)}
    ELSE {<<>>, <<F4, F5>>, <<F1, F4, F2, F5>>, Cycle(<<F1, F2>>, MaxStored)}

\* GEMINI SETUP and CHROMA SETUP at import of main.py: either may fail, and
\* a failed CHROMA SETUP leaves both collections None.
InitServer ==
    /\ gemini_client \in {"client", "None"}
    /\ \/ /\ products_collection = Null
          /\ faqs_collection = Null
       \/ \E pds \in ServedDatasets("product"), fds \in ServedDatasets("faq") :
              /\ products_collection = List(IngestedCollection("product", pds))
              /\ faqs_collection = List(IngestedCollection("faq", fds))
    /\ QueryIdle

Rep(c, n) == [i \in 1..n |-> c]

\* The query strings of the requests.
Queries ==
    {<<>>, <<" ", "\n">>, <<" ", "h", "i", " ">>,
     Rep("a", MaxQueryLen), Rep("a", MaxQueryLen + 1),
     <<" ">> \o Rep("a", MaxQueryLen) \o <<"\n">>}

TopKInputs == {Absent, Null, Num(0 - 1), Num(0), Num(MaxFaqs + 1), Num(MaxProducts + 1)}

Bodies ==
    [query : Queries, top_k_products : TopKInputs, top_k_faqs : TopKInputs]

\* What generate_content may do.
ModelOutcomes ==
    {[t |-> "text", v |-> <<" ", "H", "i", "!", "\n">>],
     [t |-> "text", v |-> <<" ">>],
     [t |-> "no_text", v |-> <<>>],
     [t |-> "raise", v |-> <<>>]}

\* query_chatbot up to its try block: strip, the two 400 checks, the two
\* 503 checks.
Receive ==
    /\ qpc = "idle"
    /\ \E body \in Bodies :
        LET req == QueryRequest(body)
            text == Strip(req.query)
            valid == validate_query(text)
            available == check_available(products_collection, faqs_collection,
                                         gemini_client)
        IN  /\ request' = req
            /\ query_text' = text
            /\ IF valid # "ok"
               THEN /\ response' = HttpError(400, valid)
                    /\ qpc' = "done"
               ELSE IF available # "ok"
               THEN /\ response' = HttpError(503, available)
                    /\ qpc' = "done"
               ELSE /\ response' = NoResponse
                    /\ qpc' = "retrieve_products"
    /\ UNCHANGED <<gemini_client, products_collection, faqs_collection,
                   products, faqs, gen_failed, calls, ingestVars, probe>>

InternalError ==
    HttpError(500, "An error occurred processing your request. Please try again.")

\* Step 1 of the try block: products = retrieve_products(query_text,
\* top_k=min(request.top_k_products, 10)).  An exception here is caught by
\* the handler's except clause and answered with a 500.
RetrieveProducts ==
    /\ qpc = "retrieve_products"
    /\ \E provider \in {"ok", "raise"}, store \in {"ok", "raise"} :
        LET top_k == py_min(request.top_k_products, MaxProducts)
        IN  IF top_k.t = "raise"
            THEN /\ response' = InternalError
                 /\ qpc' = "done"
                 /\ UNCHANGED <<products, calls>>
            ELSE \E r \in {retrieve("product", products_collection, query_text,
                                    top_k, provider, store)} :
                 /\ products' = r.list
                 /\ calls' = calls \o r.calls
                 /\ qpc' = "retrieve_faqs"
                 /\ UNCHANGED response
    /\ UNCHANGED <<gemini_client, products_collection, faqs_collection,
                   request, query_text, faqs, gen_failed, ingestVars, probe>>

\* Step 2: faqs = retrieve_faqs(query_text, top_k=min(request.top_k_faqs, 5)).
RetrieveFaqs ==
    /\ qpc = "retrieve_faqs"
    /\ \E provider \in {"ok", "raise"}, store \in {"ok", "raise"} :
        LET top_k == py_min(request.top_k_faqs, MaxFaqs)
        IN  IF top_k.t = "raise"
            THEN /\ response' = InternalError
                 /\ qpc' = "done"
                 /\ UNCHANGED <<faqs, calls>>
            ELSE \E r \in {retrieve("faq", faqs_collection, query_text,
                                    top_k, provider, store)} :
                 /\ faqs' = r.list
                 /\ calls' = calls \o r.calls
                 /\ qpc' = "generate"
                 /\ UNCHANGED response
    /\ UNCHANGED <<gemini_client, products_collection, faqs_collection,
                   request, query_text, products, gen_failed, ingestVars,
                   probe>>

\* Steps 3 and 4: the answer text and the QueryResponse.
Generate ==
    /\ qpc = "generate"
    /\ \E model \in ModelOutcomes :
        \E g \in {generate_response_with_gemini(gemini_client, query_text,
                                                products, faqs, model)} :
            /\ gen_failed' = (model.t # "text")
            /\ calls' = calls \o g.calls
            /\ response' = IF g.text.t = "raise" THEN InternalError
                           ELSE QueryResponse(query_text, g.text.v, products, faqs)
    /\ qpc' = "done"
    /\ UNCHANGED <<gemini_client, products_collection, faqs_collection,
                   request, query_text, products, faqs, ingestVars, probe>>

\* The response is sent; the handler's locals are gone.
Reply ==
    /\ qpc = "done"
    /\ request' = NoRequest
    /\ qpc' = "idle"
    /\ query_text' = <<>>
    /\ products' = <<>>
    /\ faqs' = <<>>
    /\ gen_failed' = FALSE
    /\ calls' = <<>>
    /\ response' = NoResponse
    /\ UNCHANGED <<gemini_client, products_collection, faqs_collection,
                   ingestVars, probe>>

InitQuery ==
    /\ InitServer
    /\ IngestIdle
    /\ probe = NoProbe

NextQuery ==
    \/ Receive
    \/ RetrieveProducts
    \/ RetrieveFaqs
    \/ Generate
    \/ Reply

SpecQuery == InitQuery /\ [][NextQuery]_vars

\* ------------------------------------------------------------ texts

TextChars == {" ", "\n", "x"}

\* The texts handed to get_embedding and to the loop body.
Texts == SeqsUpTo(TextChars, MaxTextLen)

\* The dataset records that are objects.
ObjectSamples(k) == {r \in Samples(k) : r.t = "dict"}

InitEmbed ==
    /\ kind \in {"product", "faq"}
    /\ dup_raises = FALSE
    /\ collection = <<>>
    /\ data_file = FileMissing
    /\ batch_size = DefaultBatchSize
    /\ pc = "idle"
    /\ idx = 0
    /\ success_count = 0
    /\ error_count = 0
    /\ embed_calls = 0
    /\ pauses = <<>>
    /\ outcomes = <<>>
    /\ fatal = "none"
    /\ result = NoResult
    /\ ServerDown
    /\ probe \in [text : Texts, op : {"none"}, ret : {Null}, calls : {0}]

\* get_embedding(text) called on the text.
CallGetEmbedding ==
    /\ probe.op = "none"
    /\ \E provider \in {"ok", "raise"} :
        \E e \in {get_embedding(probe.text, provider)} :
            probe' = [probe EXCEPT !.op = "get_embedding",
                                   !.ret = e.ret,
                                   !.calls = e.calls]
    /\ UNCHANGED <<ingestVars, queryVars>>

\* The first iteration of the for loop from `embedding = get_embedding(text)`
\* on, with the text as the record's normalized text.
RunLoopBody ==
    /\ probe.op = "none"
    /\ \E record \in ObjectSamples(kind), provider \in {"ok", "raise"},
          store \in {"ok", "raise"} :
        LET st == [collection    |-> collection,
                   success_count |-> success_count,
                   error_count   |-> error_count,
                   embed_calls   |-> embed_calls,
                   pauses        |-> pauses]
        IN  \E r \in {embed_and_insert(kind, record, idx, probe.text, st,
                                       provider, store, dup_raises, batch_size)} :
            /\ data_file' = List(<<record>>)
            /\ collection' = r.collection
            /\ success_count' = r.success_count
            /\ error_count' = r.error_count
            /\ embed_calls' = r.embed_calls
            /\ pauses' = r.pauses
            /\ outcomes' = Append(outcomes, r.outcome)
            /\ probe' = [probe EXCEPT !.op = "loop_body",
                                      !.ret = get_embedding(probe.text, provider).ret,
                                      !.calls = r.embed_calls]
    /\ pc' = "loop"
    /\ idx' = idx + 1
    /\ UNCHANGED <<kind, dup_raises, batch_size, fatal, result, queryVars>>

NextEmbed ==
    \/ CallGetEmbedding
    \/ RunLoopBody

SpecEmbed == InitEmbed /\ [][NextEmbed]_vars

\* ------------------------------------------------------------ ingestion claims

Failed(i) == outcomes[i] \in {"raised", "stored_raised", "skipped"}

ReturnedNormally == pc = "returned" /\ fatal = "none"

\* The entry a clean run stores for record i (1-based) of the loaded file.
ExpectedEntry(i) ==
    LET text == create_text(kind, records[i]).v
    IN  make_entry(kind, records[i], i - 1, text, embed_content(text))

\* C2: after a run that returned normally, every record whose insert call
\* completed is in the collection under "<kind>_<index>" with the embedding,
\* metadata and text of the record as it is in this run's dataset
\* (re-ingestion overwrites what an earlier run stored under that id).
C2_ReingestionOverwrites ==
    ReturnedNormally =>
        \A i \in 1..Len(records) :
            outcomes[i] = "stored" =>
                /\ HasId(collection, entry_id(kind, i - 1))
                /\ EntryOf(collection, entry_id(kind, i - 1)) = ExpectedEntry(i)

\* C3: when exactly one record of the N fails inside the loop, the run
\* still gives every record its iteration, stores every other record,
\* returns success_count >= N - 1 and error_count = 1.
C3_PartialFailureIsolation ==
    ReturnedNormally =>
        LET N == Len(records)
        IN  (Len(outcomes) = N /\ Cardinality({i \in 1..N : Failed(i)}) = 1) =>
                /\ \A i \in 1..N :
                       ~Failed(i) => /\ outcomes[i] = "stored"
                                     /\ HasId(collection, entry_id(kind, i - 1))
                /\ result[1] >= N - 1
                /\ result[2] = 1

\* C3 witness: a run of at least two records returned normally, its first
\* record raised and the one after it was stored.
C3_Witness ==
    /\ ReturnedNormally
    /\ Len(records) >= 2
    /\ Len(outcomes) = Len(records)
    /\ outcomes[1] = "raised"
    /\ \A i \in 2..Len(records) : outcomes[i] = "stored"

\* C8: a run that ended in one of the top-level except clauses returned
\* (0, 0), whatever the loop had stored and counted; every run returns a
\* pair.
C8_FatalReportsZero ==
    pc = "returned" =>
        /\ result # NoResult
        /\ fatal # "none" => result = <<0, 0>>

\* C8 witness: collection.count() failed after the loop had stored records.
C8_Witness ==
    /\ pc = "returned"
    /\ fatal = "exception"
    /\ success_count > 0
    /\ \E i \in 1..Len(outcomes) : outcomes[i] = "stored"
    /\ result = <<0, 0>>

\* C10: inside the loop success_count + error_count is the number of
\* records processed so far, and a normal return reports counters that add
\* up to N.
C10_CountersAddUp ==
    /\ pc = "loop" => success_count + error_count = idx
    /\ ReturnedNormally => result[1] + result[2] = Len(records)

\* The value of success_count after the iteration of record i (1-based).
SuccessesUpTo(i) ==
    Cardinality({j \in 1..i : outcomes[j] \in {"stored", "stored_raised"}})

\* The iteration of record i incremented success_count.
Succeeded(i) == outcomes[i] \in {"stored", "stored_raised"}

\* The iteration of record i ended with the one-second sleep.
PausedAfter(i) == \E p \in 1..Len(pauses) : pauses[p] = i - 1

\* C12: the run pauses after a record exactly when that record brought
\* success_count to a positive multiple of batch_size.
C12_PauseEveryBatchOfSuccesses ==
    \A i \in 1..Len(outcomes) :
        PausedAfter(i) <=> (Succeeded(i) /\ SuccessesUpTo(i) % batch_size = 0)

\* ------------------------------------------------------------ /query claims

IsBlank(text) == \A i \in 1..Len(text) : text[i] \in Whitespace

Trimmed == Strip(request.query)

Answered(status) == qpc = "done" /\ response.status = status

Made(op) == \E i \in 1..Len(calls) : calls[i].op = op

\* C1: when the generate_content call failed, the request is answered 200
\* with a non-empty responseText, which is the fallback sentence for the
\* retrieved products and FAQs; the products, faqs and conversationContext of
\* the response are those retrieved and their counts.
C1_GenerationFailureMasked ==
    (qpc = "done" /\ gen_failed) =>
        /\ response.status = 200
        /\ response.body.responseText # <<>>
        /\ response.body.responseText = fallback_text(products, faqs)
        /\ Len(products) > 0 =>
               SubSeq(response.body.responseText, Len(LitFoundPre) + 1,
                      Len(LitFoundPre) + Len(Digits(Len(products))))
                   = Digits(Len(products))
        /\ response.body.products = products
        /\ response.body.faqs = faqs
        /\ response.body.conversationContext
               = LitCtxFound \o Digits(Len(products)) \o LitCtxProducts
                     \o Digits(Len(faqs)) \o LitCtxFaqs

\* C1 witness: generation failed after products and FAQs were retrieved.
C1_Witness ==
    /\ Answered(200)
    /\ gen_failed
    /\ Made("generate")
    /\ Len(products) > 0
    /\ Len(faqs) > 0

\* C4 as stated: a request whose query is empty after trimming, or longer
\* than 500 characters, is answered 400 and makes no outbound call.
C4_Original ==
    (qpc # "idle" /\ (Trimmed = <<>> \/ Len(request.query) > MaxQueryLen)) =>
        /\ Answered(400)
        /\ calls = <<>>

\* C4 amended: a request whose query, after trimming, is empty or longer
\* than 500 characters is answered 400 at once: no outbound call is made
\* and nothing is retrieved, whatever the state of the store and the model.
C4_ValidationFirst ==
    (qpc # "idle" /\ (Trimmed = <<>> \/ Len(Trimmed) > MaxQueryLen)) =>
        /\ Answered(400)
        /\ calls = <<>>
        /\ products = <<>>
        /\ faqs = <<>>

\* C4 witness: an overlong query is answered 400 while the store and the
\* model are both available.
C4_Witness ==
    /\ Answered(400)
    /\ Len(Trimmed) > MaxQueryLen
    /\ products_collection.t # "null"
    /\ gemini_client = "client"
    /\ calls = <<>>

\* C5: no nearest-neighbour query asks for, or gets, more than 10 products
\* or 5 FAQs, and no response holds more than 10 products or 5 FAQs.
C5_MaxKRespected ==
    /\ \A i \in 1..Len(calls) :
           /\ calls[i].op = "query_products" =>
                  calls[i].arg <= MaxProducts /\ calls[i].got <= MaxProducts
           /\ calls[i].op = "query_faqs" =>
                  calls[i].arg <= MaxFaqs /\ calls[i].got <= MaxFaqs
    /\ Answered(200) =>
           /\ Len(response.body.products) <= MaxProducts
           /\ Len(response.body.faqs) <= MaxFaqs

\* C5 witness: more than the maximum was requested of collections that
\* hold more than the maximum, and the response holds exactly the maximum.
C5_Witness ==
    /\ Answered(200)
    /\ request.top_k_products.t = "num"
    /\ request.top_k_products.v > MaxProducts
    /\ request.top_k_faqs.v > MaxFaqs
    /\ Len(products_collection.v) > MaxProducts
    /\ Len(faqs_collection.v) > MaxFaqs
    /\ Len(response.body.products) = MaxProducts
    /\ Len(response.body.faqs) = MaxFaqs

\* C6: every product of a response has a non-empty productName and
\* productPrice and every FAQ a non-empty question and answer; a request
\* that reached generation is answered 200 with the lists as retrieved,
\* also when they are empty; hasResults is true exactly when a product or a
\* FAQ is returned.
C6_IncompleteEntriesDropped ==
    /\ (qpc = "done" /\ Made("generate")) => response.status = 200
    /\ Answered(200) =>
           /\ \A i \in 1..Len(response.body.products) :
                  /\ response.body.products[i].productName # <<>>
                  /\ response.body.products[i].productPrice # <<>>
           /\ \A i \in 1..Len(response.body.faqs) :
                  /\ response.body.faqs[i].question # <<>>
                  /\ response.body.faqs[i].answer # <<>>
           /\ response.body.hasResults
                  <=> (Len(response.body.products) + Len(response.body.faqs) > 0)

\* C6 witness: both queries returned entries, none qualified, and the
\* response is a 200 with empty lists and hasResults false.
C6_Witness ==
    /\ Answered(200)
    /\ \E i \in 1..Len(calls) : calls[i].op = "query_products" /\ calls[i].got > 0
    /\ \E i \in 1..Len(calls) : calls[i].op = "query_faqs" /\ calls[i].got > 0
    /\ response.body.products = <<>>
    /\ response.body.faqs = <<>>
    /\ response.body.hasResults = FALSE

\* C7: a request whose trimmed query is non-empty and at most 500
\* characters long, while a collection or the model client is not
\* initialized, is answered 503 without any outbound call.
C7_UnavailableIs503 ==
    (/\ qpc # "idle"
     /\ Trimmed # <<>>
     /\ Len(Trimmed) <= MaxQueryLen
     /\ \/ products_collection.t = "null"
        \/ faqs_collection.t = "null"
        \/ gemini_client = "None") =>
        /\ Answered(503)
        /\ calls = <<>>

\* C7 witness: the collections are loaded, the model client is not.
C7_Witness ==
    /\ Answered(503)
    /\ products_collection.t # "null"
    /\ Len(products_collection.v) > 0
    /\ gemini_client = "None"
    /\ Trimmed # <<>>

EmbedCalls == {i \in 1..Len(calls) : calls[i].op = "embed"}

\* The request went through both retrieval steps.
RetrievalDone == qpc = "generate" \/ (qpc = "done" /\ Made("generate"))

\* C11: while one request is handled the query is sent to the embedding
\* provider at most once, and exactly once by the time both collections
\* have been queried.
C11_EmbeddedOnce ==
    /\ Cardinality(EmbedCalls) <= 1
    /\ RetrievalDone => Cardinality(EmbedCalls) = 1

\* An embedding call or a nearest-neighbour query of this request raised.
RetrievalRaised ==
    \E i \in 1..Len(calls) :
        /\ calls[i].raised
        /\ calls[i].op \in {"embed", "query_products", "query_faqs"}

\* C13: a collection whose embedding call or nearest-neighbour query raised
\* yields an empty list; a request in which that happened still has both
\* retrievals attempted and is answered 200, with the lists as retrieved
\* and hasResults telling whether one of them holds anything.
C13_RetrievalDegrades ==
    /\ \A i \in 1..Len(calls) :
           /\ (calls[i].raised /\ calls[i].op = "query_products") => products = <<>>
           /\ (calls[i].raised /\ calls[i].op = "query_faqs") => faqs = <<>>
           /\ (calls[i].raised /\ calls[i].op = "embed") =>
                  IF i = 1 THEN products = <<>> ELSE faqs = <<>>
    /\ (qpc = "done" /\ RetrievalRaised) =>
           /\ response.status = 200
           /\ Cardinality(EmbedCalls) = 2
           /\ response.body.products = products
           /\ response.body.faqs = faqs
           /\ response.body.hasResults <=> (products # <<>> \/ faqs # <<>>)

\* ------------------------------------------------------------ embedding claims

\* C9: get_embedding on an empty or whitespace-only text returns None
\* without a request to the provider and without raising; the loop body on
\* such a text counts a skip and stores nothing; every stored entry has a
\* non-blank document.
C9_BlankTextNotEmbedded ==
    /\ (probe.op # "none" /\ IsBlank(probe.text)) =>
           /\ probe.ret.t = "null"
           /\ probe.calls = 0
    /\ (probe.op = "loop_body" /\ IsBlank(probe.text)) =>
           /\ collection = <<>>
           /\ outcomes = <<"skipped">>
           /\ success_count = 0
           /\ error_count = 1
    /\ \A i \in 1..Len(collection) : ~IsBlank(collection[i].document)

\* C9 witness: the loop body ran on a whitespace-only text.
C9_Witness ==
    /\ probe.op = "loop_body"
    /\ probe.text # <<>>
    /\ IsBlank(probe.text)
    /\ outcomes = <<"skipped">>

====
